---- MODULE Spec2Model ----
(***************************************************************************)
(* A model of the streaming adapter layer of python-zstandard's Rust       *)
(* backend: the compressing stream writer (compression_writer.rs) and the  *)
(* decompressor (decompressor.rs).                                         *)
(*                                                                         *)
(* Every method call of the single-threaded API is one action: the whole   *)
(* handler, its pump loop included, runs to completion inside the action.  *)
(* The codec engine (zstd) is an external collaborator: it is modelled as  *)
(* a block codec over symbolic tokens, driven through the same cursor      *)
(* protocol the source uses (destination capacity, consumed input,         *)
(* "remaining work" result).  An engine error or an exception raised by    *)
(* the sink is an input of the call (the fault), since neither is decided  *)
(* by this code.                                                           *)
(***************************************************************************)
EXTENDS Integers, Sequences, FiniteSets, TLC

(***************************************************************************)
(* Bounds of the model.                                                    *)
(***************************************************************************)
\* largest buffer size (write_size) a writer is constructed with
MaxWriteSize == 2
\* largest number of bytes handed to one write() call
MaxChunk == 2
\* what the environment may ask of a writer over its life, counting one for
\* each byte offered to write() and one for each direct flush(FLUSH_FRAME):
\* where the lifecycle is explored (MaxLifeData) and where the data path is
\* (MaxData)
MaxLifeData == 1
MaxData == 3
\* a fault hits the k-th engine step or the k-th sink write of a call, k <= MaxFaultAt
MaxFaultAt == 2
\* largest number of calls that an engine error or a sink exception aborts
MaxFaults == 1
\* bytes the engine buffers before it emits a block
BlockSize == 2
\* largest content of a frame handed to the decompressor, and the largest
\* content size a frame header declares
MaxContent == 2
\* largest max_output_size a caller passes to decompress()
MaxOutputSize == 2
\* largest number of frames in a chain handed to chain decompression, and
\* the length of the content of a frame of a chain
MaxChain == 2
MaxLink == 1
\* what the environment may ask of a writer whose output is then copied by
\* copy_stream (counted as MaxData is), and the largest read_size passed to
\* copy_stream
MaxCopyData == 2
MaxReadSize == 2
\* the number of spawned objects the caller keeps, and the largest number
\* of stream tokens a spawned object is handed in one call
MaxObjs == 1
MaxFeed == 2

(***************************************************************************)
(* Program constants.                                                      *)
(***************************************************************************)
FLUSH_BLOCK == 0
FLUSH_FRAME == 1
\* what ZSTD_getFrameContentSize returns for a header without a content
\* size, and for a header it cannot parse
ZSTD_CONTENTSIZE_UNKNOWN == -1
ZSTD_CONTENTSIZE_ERROR == -2
\* the window sizes ZSTD_DCtx_setMaxWindowSize accepts
WindowMin == 1
WindowMax == 2

Bytes == {"a", "b"}

Min(a, b) == IF a < b THEN a ELSE b

Tail2(s, n) == SubSeq(s, n + 1, Len(s))

RECURSIVE SeqsUpTo(_)
SeqsUpTo(n) ==
    IF n = 0 THEN {<<>>}
    ELSE LET shorter == SeqsUpTo(n - 1)
         IN shorter \cup {Append(s, b) : s \in {t \in shorter : Len(t) = n - 1}, b \in Bytes}

RECURSIVE Count(_, _)
Count(s, x) ==
    IF s = <<>> THEN 0
    ELSE (IF Head(s) = x THEN 1 ELSE 0) + Count(Tail(s), x)

IsPrefix(s, t) == Len(s) <= Len(t) /\ SubSeq(t, 1, Len(s)) = s

(***************************************************************************)
(* The codec engine, compression direction.  A frame is the token "HDR",   *)
(* then blocks (the token "BLK" followed by the encoded bytes of the       *)
(* block), then the token "END".                                           *)
(***************************************************************************)
EncByte(b) == IF b = "a" THEN "x" ELSE "y"

DecByte(t) == IF t = "x" THEN "a" ELSE "b"

RECURSIVE Enc(_)
Enc(s) == IF s = <<>> THEN <<>> ELSE <<EncByte(Head(s))>> \o Enc(Tail(s))

FreshCCtx == [inbuf |-> <<>>, pend |-> <<>>, hdr |-> FALSE, frameEnded |-> FALSE]

\* ZSTD_compressStream2(cctx, out, in, directive): one engine step.  The step
\* first drains pending output into the destination, then loads input into
\* its block buffer, and emits a block when the buffer is full
\* (ZSTD_e_continue), non-empty (ZSTD_e_flush) or unconditionally with the
\* frame's end marker (ZSTD_e_end).  It stops when the destination is full.
\* zresult is the number of tokens still to be flushed.
RECURSIVE CompressStream2(_, _, _, _, _)
CompressStream2(c, input, out, cap, directive) ==
    LET m == Min(Len(c.pend), cap - Len(out))
        out1 == out \o SubSeq(c.pend, 1, m)
        pend1 == Tail2(c.pend, m)
    IN IF pend1 # <<>>
       THEN [cctx |-> [c EXCEPT !.pend = pend1], out |-> out1, rest |-> input,
             zresult |-> Len(pend1)]
       ELSE IF c.frameEnded
       THEN [cctx |-> FreshCCtx, out |-> out1, rest |-> input, zresult |-> 0]
       ELSE LET k == Min(Len(input), BlockSize - Len(c.inbuf))
                inbuf1 == c.inbuf \o SubSeq(input, 1, k)
                rest1 == Tail2(input, k)
                doBlock == CASE directive = "continue" -> Len(inbuf1) = BlockSize
                             [] directive = "flush" -> inbuf1 # <<>>
                             [] directive = "end" -> TRUE
                block == (IF c.hdr THEN <<>> ELSE <<"HDR">>)
                         \o (IF inbuf1 = <<>> THEN <<>> ELSE <<"BLK">> \o Enc(inbuf1))
                         \o (IF directive = "end" THEN <<"END">> ELSE <<>>)
            IN IF ~doBlock
               THEN [cctx |-> [c EXCEPT !.pend = <<>>, !.inbuf = inbuf1],
                     out |-> out1, rest |-> rest1, zresult |-> 0]
               ELSE CompressStream2(
                        [inbuf |-> <<>>, pend |-> block, hdr |-> TRUE,
                         frameEnded |-> (directive = "end")],
                        rest1, out1, cap, directive)

\* The reference decoder of one frame: the bytes a standard decompressor
\* yields for the token stream t, or "error" when t is not exactly one
\* complete frame.
RECURSIVE DecodeBlocks(_, _)
DecodeBlocks(t, acc) ==
    IF t = <<>> THEN [ok |-> FALSE, data |-> acc, rest |-> <<>>]
    ELSE IF Head(t) = "END" THEN [ok |-> TRUE, data |-> acc, rest |-> Tail(t)]
    ELSE IF Head(t) = "BLK" THEN DecodeBlocks(Tail(t), acc)
    ELSE IF Head(t) \in {"x", "y"} THEN DecodeBlocks(Tail(t), Append(acc, DecByte(Head(t))))
    ELSE [ok |-> FALSE, data |-> acc, rest |-> t]

DecodeFrame(t) ==
    IF t = <<>> \/ Head(t) # "HDR" THEN [ok |-> FALSE, data |-> <<>>, rest |-> t]
    ELSE DecodeBlocks(Tail(t), <<>>)

\* Decoding across frame boundaries: the concatenated content of every
\* frame of t.
RECURSIVE DecodeAll(_, _)
DecodeAll(t, acc) ==
    IF t = <<>> THEN [ok |-> TRUE, data |-> acc]
    ELSE LET f == DecodeFrame(t)
         IN IF ~f.ok THEN [ok |-> FALSE, data |-> acc \o f.data]
            ELSE DecodeAll(f.rest, acc \o f.data)

(***************************************************************************)
(* The compression writer.                                                 *)
(*   self : the fields of ZstdCompressionWriter                            *)
(*   cctx : the compression context the writer drives                      *)
(*   sink : the wrapped writer object: the bytes it holds, the calls of    *)
(*          its close() so far, and whether it has flush / close methods   *)
(*   call : the last method call: its name, arguments, outcome, the sink   *)
(*          calls it made in order, the number of its engine steps, and    *)
(*          whether the writer was entered when it began                   *)
(*   hist : history of the calls made so far                               *)
(*   env  : what the environment may still do: the data it may still       *)
(*          offer and the calls it may still make fail                     *)
(*   pump : the pump loop a call is running, when the loop is followed     *)
(*          iteration by iteration: the call, the input left, the          *)
(*          directive, the number of iterations made (modulo 2)            *)
(***************************************************************************)
VARIABLES self, cctx, sink, call, hist, env, pump

wvars == <<self, cctx, sink, call, hist, env, pump>>

(***************************************************************************)
(* The decompressor.                                                       *)
(*   dec   : the fields of ZstdDecompressor (dict_data, max_window_size)   *)
(*   dctx  : the decompression context it owns                             *)
(*   dcall : the last method call: its name, arguments and outcome, the    *)
(*           number of its engine steps and of its context resets          *)
(*   objs  : the objects spawned by the decompressor that the caller       *)
(*           holds; each holds a handle to dctx (self.dctx.clone())        *)
(***************************************************************************)
VARIABLES dec, dctx, dcall, objs

dvars == <<dec, dctx, dcall, objs>>

vars == <<self, cctx, sink, call, hist, env, pump, dec, dctx, dcall, objs>>

\* A fault is what the environment does to one call: nothing, an engine
\* error on the call's k-th engine step, or an exception raised by the
\* sink's k-th write(), by its flush() or by its close().
NoFault == [kind |-> "none", at |-> 0]

PumpFaults == {[kind |-> k, at |-> i] : k \in {"engine", "write"}, i \in 1..MaxFaultAt}

\* The faults the environment can inject into a call that may reach the
\* sink calls named in kinds.
Faults(kinds) ==
    IF env.faults = 0 THEN {NoFault}
    ELSE {NoFault} \cup PumpFaults \cup {[kind |-> k, at |-> 0] : k \in kinds}

\* The outcome of a method body started in state (s, c, k).
\*   events : the calls made on the sink, in order
\*   steps  : the number of engine steps
\*   trace  : the engine steps and the sink calls in the order they were
\*            made, the one that failed marked with "!"
Start(s, c, k) ==
    [self |-> s, cctx |-> c, sink |-> k, res |-> "ok", ret |-> 0,
     events |-> <<>>, steps |-> 0, trace |-> <<>>]

Fail(o, why) == [o EXCEPT !.res = why]

\* dest_buffer.capacity()
Capacity(s) == s.write_size

\* (faulty variant) a chunk forwarded without being counted
SinkWrite_uncounted(o, chunk) ==
    [o EXCEPT !.sink.data = @ \o chunk,
              !.events = Append(@, "write"),
              !.trace = Append(@, "write"),
              !.ret = @ + Len(chunk),
              !.self.dest_buffer = <<>>]

\* self.writer.call_method1("write", (chunk,)) and the bookkeeping after it
SinkWrite(o, chunk) ==
    [o EXCEPT !.sink.data = @ \o chunk,
              !.events = Append(@, "write"),
              !.trace = Append(@, "write"),
              !.ret = @ + Len(chunk),
              !.self.bytes_compressed = @ + Len(chunk),
              !.self.dest_buffer = <<>>]

\* (faulty variant) a failed write to the sink is made again
Forward_retry(o, r, fault) ==
    LET o1 == [o EXCEPT !.cctx = r.cctx, !.steps = @ + 1, !.self.dest_buffer = r.out,
                        !.trace = Append(@, "step")]
    IN IF r.out = <<>> THEN o1
       ELSE IF fault.kind = "write" /\ fault.at = Count(o.events, "write") + 1
       THEN SinkWrite([o1 EXCEPT !.events = Append(@, "write"),
                                 !.trace = Append(@, "write!")], r.out)
       ELSE SinkWrite(o1, r.out)

\* One iteration of a pump loop after the engine step r: set the buffer's
\* length, forward the chunk if there is one.
Forward(o, r, fault) ==
    LET o1 == [o EXCEPT !.cctx = r.cctx, !.steps = @ + 1, !.self.dest_buffer = r.out,
                        !.trace = Append(@, "step")]
    IN IF r.out = <<>> THEN o1
       ELSE IF fault.kind = "write" /\ fault.at = Count(o.events, "write") + 1
       THEN Fail([o1 EXCEPT !.events = Append(@, "write"),
                            !.trace = Append(@, "write!")], "sink_write")
       ELSE SinkWrite(o1, r.out)

EngineFails(o, fault) == fault.kind = "engine" /\ fault.at = o.steps + 1

EngineError(o) ==
    Fail([o EXCEPT !.steps = @ + 1, !.self.dest_buffer = <<>>,
                   !.trace = Append(@, "step!")], "engine")

\* (faulty variant) the loop body run once: if instead of while
WriteLoop_once(o, rest, fault) ==
    IF rest = <<>> THEN o
    ELSE IF EngineFails(o, fault) THEN EngineError(o)
    ELSE Forward(o, CompressStream2(o.cctx, rest, <<>>, Capacity(o.self), "continue"), fault)

\* write(): the loop  while in_buffer.pos < in_buffer.size
RECURSIVE WriteLoop(_, _, _)
WriteLoop(o, rest, fault) ==
    IF rest = <<>> THEN o
    ELSE IF EngineFails(o, fault) THEN EngineError(o)
    ELSE LET r == CompressStream2(o.cctx, rest, <<>>, Capacity(o.self), "continue")
             o1 == Forward(o, r, fault)
         IN IF o1.res # "ok" THEN o1 ELSE WriteLoop(o1, r.rest, fault)

\* (faulty variant) write() without the check of self.closed
write_noguard(s, c, k, data, fault) ==
    LET o == WriteLoop(Start(s, c, k), data, fault)
    IN IF o.res # "ok" THEN o
       ELSE IF s.write_return_read THEN [o EXCEPT !.ret = Len(data)]
       ELSE o

\* (faulty variant) write() with the two return modes exchanged
write_retswap(s, c, k, data, fault) ==
    IF s.closed THEN Fail(Start(s, c, k), "closed")
    ELSE LET o == WriteLoop(Start(s, c, k), data, fault)
         IN IF o.res # "ok" THEN o
            ELSE IF ~s.write_return_read THEN [o EXCEPT !.ret = Len(data)]
            ELSE o

write(s, c, k, data, fault) ==
    IF s.closed THEN Fail(Start(s, c, k), "closed")
    ELSE LET o == WriteLoop(Start(s, c, k), data, fault)
         IN IF o.res # "ok" THEN o
            ELSE IF s.write_return_read THEN [o EXCEPT !.ret = Len(data)]
            ELSE o

\* (faulty variant) both flush modes end the frame
FlushDirective_end(flush_mode) ==
    CASE flush_mode = FLUSH_BLOCK -> "end"
      [] flush_mode = FLUSH_FRAME -> "end"
      [] OTHER -> "invalid"

\* flush(): the match on flush_mode
FlushDirective(flush_mode) ==
    CASE flush_mode = FLUSH_BLOCK -> "flush"
      [] flush_mode = FLUSH_FRAME -> "end"
      [] OTHER -> "invalid"

\* flush(): the loop  loop { ... if zresult == 0 { break; } }
RECURSIVE FlushLoop(_, _, _)
FlushLoop(o, directive, fault) ==
    IF EngineFails(o, fault) THEN EngineError(o)
    ELSE LET r == CompressStream2(o.cctx, <<>>, <<>>, Capacity(o.self), directive)
             o1 == Forward(o, r, fault)
         IN IF o1.res # "ok" THEN o1
            ELSE IF r.zresult = 0 THEN o1
            ELSE FlushLoop(o1, directive, fault)

\* (faulty variant) the sink's flush called whether or not close() is running
SinkFlush_always(o, fault) ==
    IF o.sink.hasFlush
    THEN LET o1 == [o EXCEPT !.events = Append(@, "flush"),
                             !.trace = Append(@, IF fault.kind = "flush"
                                                 THEN "flush!" ELSE "flush")]
         IN IF fault.kind = "flush" THEN Fail(o1, "sink_flush") ELSE o1
    ELSE o

\* flush(): the sink's own flush after the loop
SinkFlush(o, fault) ==
    IF o.sink.hasFlush /\ ~o.self.closing
    THEN LET o1 == [o EXCEPT !.events = Append(@, "flush"),
                             !.trace = Append(@, IF fault.kind = "flush"
                                                 THEN "flush!" ELSE "flush")]
         IN IF fault.kind = "flush" THEN Fail(o1, "sink_flush") ELSE o1
    ELSE o

\* (faulty variant) a flush that ends the frame also marks the writer closed
flush_closing(s, c, k, flush_mode, fault) ==
    IF FlushDirective(flush_mode) = "invalid" THEN Fail(Start(s, c, k), "badmode")
    ELSE IF s.closed THEN Fail(Start(s, c, k), "closed")
    ELSE LET o == FlushLoop(Start(s, c, k), FlushDirective(flush_mode), fault)
             o1 == IF o.res # "ok" THEN o ELSE SinkFlush(o, fault)
         IN IF o1.res = "ok" /\ flush_mode = FLUSH_FRAME
            THEN [o1 EXCEPT !.self.closed = TRUE]
            ELSE o1

flush(s, c, k, flush_mode, fault) ==
    IF FlushDirective(flush_mode) = "invalid" THEN Fail(Start(s, c, k), "badmode")
    ELSE IF s.closed THEN Fail(Start(s, c, k), "closed")
    ELSE LET o == FlushLoop(Start(s, c, k), FlushDirective(flush_mode), fault)
         IN IF o.res # "ok" THEN o ELSE SinkFlush(o, fault)

\* close(): close() of the underlying stream
SinkClose(o, fault) ==
    IF o.sink.hasClose /\ o.self.closefd
    THEN LET o1 == [o EXCEPT !.events = Append(@, "close"), !.sink.closes = @ + 1,
                             !.trace = Append(@, IF fault.kind = "close"
                                                 THEN "close!" ELSE "close")]
         IN IF fault.kind = "close" THEN Fail(o1, "sink_close") ELSE o1
    ELSE o

\* (faulty variant) close() without the early return of a closed writer
close_noguard(s, c, k, fault) ==
    LET f == flush([s EXCEPT !.closing = TRUE], c, k, FLUSH_FRAME, fault)
        o == [f EXCEPT !.self.closing = FALSE, !.self.closed = TRUE, !.ret = 0]
    IN IF f.res # "ok" THEN o ELSE SinkClose(o, fault)

\* (faulty variant) close() that propagates the flush error before it marks the
\* writer closed
close_strict(s, c, k, fault) ==
    IF s.closed THEN Start(s, c, k)
    ELSE LET f == flush([s EXCEPT !.closing = TRUE], c, k, FLUSH_FRAME, fault)
             o == [f EXCEPT !.self.closing = FALSE, !.self.closed = TRUE, !.ret = 0]
         IN IF f.res # "ok" THEN [f EXCEPT !.self.closing = FALSE, !.ret = 0]
            ELSE SinkClose(o, fault)

\* (faulty variant) close() that closes the sink before it surfaces the flush error
close_sinkfirst(s, c, k, fault) ==
    IF s.closed THEN Start(s, c, k)
    ELSE LET f == flush([s EXCEPT !.closing = TRUE], c, k, FLUSH_FRAME, fault)
             o == [f EXCEPT !.self.closing = FALSE, !.self.closed = TRUE, !.ret = 0]
             g == SinkClose([o EXCEPT !.res = "ok"], fault)
         IN IF f.res # "ok" THEN [g EXCEPT !.res = f.res] ELSE g

\* (faulty variant) close() that leaves the closing flag set
close_closing(s, c, k, fault) ==
    IF s.closed THEN Start(s, c, k)
    ELSE LET f == flush([s EXCEPT !.closing = TRUE], c, k, FLUSH_FRAME, fault)
             o == [f EXCEPT !.self.closed = TRUE, !.ret = 0]
         IN IF f.res # "ok" THEN o ELSE SinkClose(o, fault)

close(s, c, k, fault) ==
    IF s.closed THEN Start(s, c, k)
    ELSE LET f == flush([s EXCEPT !.closing = TRUE], c, k, FLUSH_FRAME, fault)
             o == [f EXCEPT !.self.closing = FALSE, !.self.closed = TRUE, !.ret = 0]
         IN IF f.res # "ok" THEN o ELSE SinkClose(o, fault)

enter(s, c, k) ==
    IF s.closed THEN Fail(Start(s, c, k), "closed")
    ELSE IF s.entered THEN Fail(Start(s, c, k), "entered")
    ELSE Start([s EXCEPT !.entered = TRUE], c, k)

\* (faulty variant) __exit__ that leaves entered set
exit_entered(s, c, k, fault) == close(s, c, k, fault)

exit(s, c, k, fault) == close([s EXCEPT !.entered = FALSE], c, k, fault)

\* readline, readlines, seek, truncate, read, readall, readinto raise
\* io.UnsupportedOperation; writelines raises NotImplementedError.
ReadFamily == {"read", "readall", "readinto", "readline", "readlines", "seek", "truncate"}

\* (faulty variant) truncate raises NotImplementedError, as writelines does
unsupported_truncate(s, c, k, op) ==
    Fail(Start(s, c, k),
         IF op \in ReadFamily \ {"truncate"} THEN "unsupported" ELSE "notimplemented")

unsupported(s, c, k, op) ==
    Fail(Start(s, c, k), IF op \in ReadFamily THEN "unsupported" ELSE "notimplemented")

\* tell()
tell(s) == s.bytes_compressed

(***************************************************************************)
(* The codec engine, decompression direction.  A frame handed to the       *)
(* decompressor is described by what the engine finds in it:               *)
(*   hdr      : whether its header parses                                  *)
(*   size     : the content size the header declares, or                   *)
(*              ZSTD_CONTENTSIZE_UNKNOWN                                   *)
(*   content  : the bytes the engine decodes from it                       *)
(*   complete : whether the buffer holds the whole frame (FALSE: truncated)*)
(*   dict     : the dictionary it was compressed with, or "none"           *)
(*   ref      : the content it was compressed against as implicit          *)
(*              reference data (the previous content of a content-         *)
(*              dictionary chain), or <<>> for none                        *)
(*   bytes    : whether the object holding it is a bytes object (FALSE:    *)
(*              another object with the buffer protocol)                   *)
(* The declared size and the decoded content are independent: what the     *)
(* code does when they disagree is the code's to decide.                   *)
(***************************************************************************)
Dicts == {"none", "d1"}

\* The contents of the frames explored: runs of one byte.
Contents == {[i \in 1..n |-> b] : n \in 0..MaxContent, b \in Bytes}

NoRef == <<>>

BadFrame ==
    [hdr |-> FALSE, size |-> ZSTD_CONTENTSIZE_UNKNOWN, content |-> <<>>,
     complete |-> FALSE, dict |-> "none", ref |-> NoRef, bytes |-> TRUE]

Frames ==
    {BadFrame} \cup
    [hdr : {TRUE},
     size : {ZSTD_CONTENTSIZE_UNKNOWN} \cup 0..MaxContent,
     content : Contents,
     complete : BOOLEAN,
     dict : Dicts,
     ref : {NoRef},
     bytes : {TRUE}]

\* A context as ZSTD_createDCtx returns it: no dictionary, no window limit,
\* nothing decoded (window: the content decoded last, which the next frame
\* may refer to; inbuf, pend: input loaded and output decoded but not yet
\* handed over, when the context is fed a stream in pieces).
FreshDCtx ==
    [dict |-> "none", window |-> <<>>, maxWindow |-> 0, stage |-> "init",
     inbuf |-> <<>>, pend |-> <<>>]

\* ZSTD_getFrameContentSize
GetFrameContentSize(frame) ==
    IF frame.hdr THEN frame.size ELSE ZSTD_CONTENTSIZE_ERROR

\* ZSTD_decompressStream(dctx, out, in) on a whole buffer and an empty
\* destination of capacity cap.  zresult is 0 when the frame is completely
\* decoded and flushed, and positive when input or output space is missing.
DecompressStream(x, frame, cap) ==
    IF \/ x.stage # "init"
       \/ ~frame.hdr
       \/ (frame.dict # "none" /\ frame.dict # x.dict)
       \/ (frame.ref # NoRef /\ frame.ref # x.window)
       \/ (x.maxWindow # 0 /\ Len(frame.content) > x.maxWindow)
    THEN [dctx |-> [x EXCEPT !.stage = "error"], err |-> TRUE, zresult |-> 0, out |-> <<>>]
    ELSE LET n == Min(cap, Len(frame.content))
             done == frame.complete /\ Len(frame.content) <= cap
         IN [dctx |-> [x EXCEPT !.stage = IF done THEN "init" ELSE "mid",
                                !.window = SubSeq(frame.content, 1, n)],
             err |-> FALSE,
             zresult |-> IF done THEN 0 ELSE 1,
             out |-> SubSeq(frame.content, 1, n)]

\* The outcome of a decompressor method started with context x.
\*   events : the calls made on the context, in order
\*   eng    : what each engine step reported (error, zresult, output cursor)
\*   alloc  : the capacity reserved for the destination
\*   index  : the chain element an error names
\*   ret    : the pair copy_stream returns
DStart(x) ==
    [dctx |-> x, res |-> "ok", out |-> <<>>, steps |-> 0, resets |-> 0,
     events |-> <<>>, eng |-> <<>>, alloc |-> 0, index |-> 0, ret |-> <<0, 0>>]

DFail(o, why) == [o EXCEPT !.res = why, !.out = <<>>]

\* setup_dctx: reset the session (ZSTD_reset_session_only: the frame in
\* progress and the window go, the parameters and the dictionary stay), set
\* the window limit, set the format, load the dictionary if asked to.
setup_dctx(d, o, load_dict) ==
    LET o1 == [o EXCEPT !.dctx.stage = "init", !.dctx.window = <<>>,
                        !.dctx.inbuf = <<>>, !.dctx.pend = <<>>,
                        !.resets = @ + 1, !.events = Append(@, "reset")]
        o2 == IF d.max_window_size # 0
              THEN [o1 EXCEPT !.events = Append(@, "set_max_window_size")]
              ELSE o1
    IN IF d.max_window_size # 0 /\ d.max_window_size \notin WindowMin..WindowMax
       THEN DFail(o2, "setup")
       ELSE LET o3 == [o2 EXCEPT !.dctx.maxWindow = IF d.max_window_size # 0
                                                    THEN d.max_window_size ELSE @,
                                 !.events = Append(@, "set_format")]
            IN IF d.dict_data # "none" /\ load_dict
               THEN [o3 EXCEPT !.dctx.dict = d.dict_data, !.events = Append(@, "load_dict")]
               ELSE o3

\* (faulty variant) the result checks without the comparison of the produced
\* byte count with the declared size
DecompressStep_nosize(o, frame, cap, output_size) ==
    LET r == DecompressStream(o.dctx, frame, cap)
        o1 == [o EXCEPT !.dctx = r.dctx, !.steps = @ + 1, !.alloc = cap,
                        !.events = Append(@, "step"),
                        !.eng = Append(@, [err |-> r.err, zresult |-> r.zresult,
                                           pos |-> Len(r.out)])]
    IN IF r.err THEN DFail(o1, "engine")
       ELSE IF r.zresult # 0 THEN DFail(o1, "incomplete")
       ELSE [o1 EXCEPT !.out = r.out]

\* decompress(): the engine step and the checks of its result
DecompressStep(o, frame, cap, output_size) ==
    LET r == DecompressStream(o.dctx, frame, cap)
        o1 == [o EXCEPT !.dctx = r.dctx, !.steps = @ + 1, !.alloc = cap,
                        !.events = Append(@, "step"),
                        !.eng = Append(@, [err |-> r.err, zresult |-> r.zresult,
                                           pos |-> Len(r.out)])]
    IN IF r.err THEN DFail(o1, "engine")
       ELSE IF r.zresult # 0 THEN DFail(o1, "incomplete")
       ELSE IF output_size # 0 /\ Len(r.out) # output_size THEN DFail(o1, "size_mismatch")
       ELSE [o1 EXCEPT !.out = r.out]

\* (faulty variant) decompress() that, given no bound for a frame of unknown
\* size, reserves as much as the frame turns out to need
decompress_unbounded(d, x, buffer, max_output_size, alloc_ok) ==
    LET o == setup_dctx(d, DStart(x), TRUE)
        output_size == GetFrameContentSize(buffer)
    IN IF o.res # "ok" THEN o
       ELSE IF output_size = ZSTD_CONTENTSIZE_ERROR THEN DFail(o, "header")
       ELSE IF output_size = 0 THEN o
       ELSE IF output_size = ZSTD_CONTENTSIZE_UNKNOWN
       THEN IF ~alloc_ok THEN DFail(o, "memory")
            ELSE DecompressStep(o, buffer,
                                IF max_output_size = 0 THEN Len(buffer.content)
                                ELSE max_output_size, 0)
       ELSE IF ~alloc_ok THEN DFail(o, "memory")
       ELSE DecompressStep(o, buffer, output_size, output_size)

\* (faulty variant) decompress() that lets the caller's bound override the header:
\* a frame of content size 0 is sent to the engine when a bound is given
decompress_bound(d, x, buffer, max_output_size, alloc_ok) ==
    LET o == setup_dctx(d, DStart(x), TRUE)
        output_size == GetFrameContentSize(buffer)
    IN IF o.res # "ok" THEN o
       ELSE IF output_size = ZSTD_CONTENTSIZE_ERROR THEN DFail(o, "header")
       ELSE IF output_size = 0 /\ max_output_size = 0 THEN o
       ELSE IF output_size = ZSTD_CONTENTSIZE_UNKNOWN \/ output_size = 0
       THEN IF max_output_size = 0 THEN DFail(o, "no_size")
            ELSE IF ~alloc_ok THEN DFail(o, "memory")
            ELSE DecompressStep(o, buffer, max_output_size, 0)
       ELSE IF ~alloc_ok THEN DFail(o, "memory")
       ELSE DecompressStep(o, buffer, output_size, output_size)

\* decompress()
decompress(d, x, buffer, max_output_size, alloc_ok) ==
    LET o == setup_dctx(d, DStart(x), TRUE)
        output_size == GetFrameContentSize(buffer)
    IN IF o.res # "ok" THEN o
       ELSE IF output_size = ZSTD_CONTENTSIZE_ERROR THEN DFail(o, "header")
       ELSE IF output_size = 0 THEN o
       ELSE IF output_size = ZSTD_CONTENTSIZE_UNKNOWN
       THEN IF max_output_size = 0 THEN DFail(o, "no_size")
            ELSE IF ~alloc_ok THEN DFail(o, "memory")
            ELSE DecompressStep(o, buffer, max_output_size, 0)
       ELSE IF ~alloc_ok THEN DFail(o, "memory")
       ELSE DecompressStep(o, buffer, output_size, output_size)

\* ZSTD_getFrameHeader
GetFrameHeader(frame) ==
    [err |-> ~frame.hdr, frameContentSize |-> frame.size]

DFailAt(o, why, i) == [DFail(o, why) EXCEPT !.index = i]

\* decompress_content_dict_chain(): the checks made of chain element i before
\* it is decoded: it is a bytes object, its header parses, and the header
\* declares a content size.
ChainCheck(o, frame, i) ==
    IF ~frame.bytes THEN DFailAt(o, "type", i)
    ELSE IF GetFrameHeader(frame).err THEN DFailAt(o, "header", i)
    ELSE IF GetFrameHeader(frame).frameContentSize = ZSTD_CONTENTSIZE_UNKNOWN
    THEN DFailAt(o, "no_size", i)
    ELSE o

\* (faulty variant) the engine step of a chain element that hands over what
\* was decoded when the frame is not resolved
ChainStep_partial(o, frame, i) ==
    LET cap == GetFrameHeader(frame).frameContentSize
        r == DecompressStream(o.dctx, frame, cap)
        o1 == [o EXCEPT !.dctx = r.dctx, !.steps = @ + 1, !.alloc = cap,
                        !.events = Append(@, "step"),
                        !.eng = Append(@, [err |-> r.err, zresult |-> r.zresult,
                                           pos |-> Len(r.out)])]
    IN IF r.err THEN DFailAt(o1, "engine", i)
       ELSE [o1 EXCEPT !.out = r.out]

\* (faulty variant) the engine step of a chain element whose errors all name
\* element 0
ChainStep_index0(o, frame, i) ==
    LET cap == GetFrameHeader(frame).frameContentSize
        r == DecompressStream(o.dctx, frame, cap)
        o1 == [o EXCEPT !.dctx = r.dctx, !.steps = @ + 1, !.alloc = cap,
                        !.events = Append(@, "step"),
                        !.eng = Append(@, [err |-> r.err, zresult |-> r.zresult,
                                           pos |-> Len(r.out)])]
    IN IF r.err THEN DFailAt(o1, "engine", 0)
       ELSE IF r.zresult # 0 THEN DFailAt(o1, "incomplete", 0)
       ELSE [o1 EXCEPT !.out = r.out]

\* decompress_content_dict_chain(): the engine step on chain element i, into
\* a destination of the declared size, and the checks of its result
ChainStep(o, frame, i) ==
    LET cap == GetFrameHeader(frame).frameContentSize
        r == DecompressStream(o.dctx, frame, cap)
        o1 == [o EXCEPT !.dctx = r.dctx, !.steps = @ + 1, !.alloc = cap,
                        !.events = Append(@, "step"),
                        !.eng = Append(@, [err |-> r.err, zresult |-> r.zresult,
                                           pos |-> Len(r.out)])]
    IN IF r.err THEN DFailAt(o1, "engine", i)
       ELSE IF r.zresult # 0 THEN DFailAt(o1, "incomplete", i)
       ELSE [o1 EXCEPT !.out = r.out]

\* (faulty variant) the loop with the context set up again before every element
RECURSIVE ChainLoop_reset(_, _, _, _)
ChainLoop_reset(d, o, frames, i) ==
    IF i = Len(frames) THEN o
    ELSE LET o1 == ChainCheck(o, frames[i + 1], i)
             o2 == IF o1.res # "ok" THEN o1 ELSE setup_dctx(d, o1, FALSE)
             o3 == IF o2.res # "ok" THEN o2 ELSE ChainStep(o2, frames[i + 1], i)
         IN IF o3.res # "ok" THEN o3 ELSE ChainLoop_reset(d, o3, frames, i + 1)

\* decompress_content_dict_chain(): the loop over the elements after the
\* first,  for (i, chunk) in frames.iter().enumerate().skip(1)
RECURSIVE ChainLoop(_, _, _, _)
ChainLoop(d, o, frames, i) ==
    IF i = Len(frames) THEN o
    ELSE LET o1 == ChainCheck(o, frames[i + 1], i)
             o2 == IF o1.res # "ok" THEN o1 ELSE ChainStep(o1, frames[i + 1], i)
         IN IF o2.res # "ok" THEN o2 ELSE ChainLoop(d, o2, frames, i + 1)

\* (faulty variant) the chain call that sets the context up before it looks at
\* its argument
chain_setupfirst(d, x, frames) ==
    LET o == setup_dctx(d, DStart(x), FALSE)
    IN IF o.res # "ok" THEN o
       ELSE IF frames = <<>> THEN DFail(o, "empty")
       ELSE LET o1 == ChainCheck(o, frames[1], 0)
                o2 == IF o1.res # "ok" THEN o1 ELSE ChainStep(o1, frames[1], 0)
            IN IF o2.res # "ok" THEN o2 ELSE ChainLoop(d, o2, frames, 1)

\* (faulty variant) the chain call that returns the first element's content
chain_first(d, x, frames) ==
    IF frames = <<>> THEN DFail(DStart(x), "empty")
    ELSE LET o1 == ChainCheck(DStart(x), frames[1], 0)
             o2 == IF o1.res # "ok" THEN o1 ELSE setup_dctx(d, o1, FALSE)
             o3 == IF o2.res # "ok" THEN o2 ELSE ChainStep(o2, frames[1], 0)
             o4 == IF o3.res # "ok" THEN o3 ELSE ChainLoop(d, o3, frames, 1)
         IN IF o4.res # "ok" THEN o4 ELSE [o4 EXCEPT !.out = o3.out]

\* decompress_content_dict_chain(): the empty chain is refused; element 0 is
\* checked, the context is set up (without loading the dictionary) and
\* element 0 is decoded; then the other elements, the last one's content
\* being the result.
chain(d, x, frames) ==
    IF frames = <<>> THEN DFail(DStart(x), "empty")
    ELSE LET o1 == ChainCheck(DStart(x), frames[1], 0)
             o2 == IF o1.res # "ok" THEN o1 ELSE setup_dctx(d, o1, FALSE)
             o3 == IF o2.res # "ok" THEN o2 ELSE ChainStep(o2, frames[1], 0)
         IN IF o3.res # "ok" THEN o3 ELSE ChainLoop(d, o3, frames, 1)

RECURSIVE Dec(_)
Dec(t) ==
    IF t = <<>> THEN <<>>
    ELSE IF Head(t) \in {"x", "y"} THEN <<DecByte(Head(t))>> \o Dec(Tail(t))
    ELSE Dec(Tail(t))

\* ZSTD_decompressStream(dctx, out, in) fed a stream in pieces: one engine
\* step on the tokens of input, into a destination holding out, of capacity
\* cap.  The step hands over decoded output first; while none is left over
\* it loads input, whether or not the destination has room: a block is
\* loaded token by token and decoded when it is whole (the token after it
\* tells), and the end mark is taken with the block it ends.  The step
\* stops when decoded output is left over, when the frame is decoded and
\* handed over (zresult 0), or when the input is used up.  zresult > 0:
\* there is more to decode or to hand over.
RECURSIVE DecompressStreamIn(_, _, _, _)
DecompressStreamIn(x, input, out, cap) ==
    LET m == Min(Len(x.pend), cap - Len(out))
        out1 == out \o SubSeq(x.pend, 1, m)
        x1 == [x EXCEPT !.pend = Tail2(x.pend, m)]
        stop(y, z) == [dctx |-> y, err |-> FALSE, zresult |-> z, out |-> out1, rest |-> input]
        bad == [dctx |-> [x1 EXCEPT !.stage = "error"], err |-> TRUE, zresult |-> 0,
                out |-> out1, rest |-> input]
    IN IF x.stage = "error" THEN bad
       ELSE IF x1.pend # <<>> THEN stop(x1, 1)
       ELSE IF x1.stage = "done" THEN stop([x1 EXCEPT !.stage = "init"], 0)
       ELSE IF input = <<>> THEN stop(x1, 1)
       ELSE LET t == Head(input)
            IN IF x1.stage = "init"
               THEN IF t = "HDR"
                    THEN DecompressStreamIn([x1 EXCEPT !.stage = "mid"], Tail(input), out1, cap)
                    ELSE bad
               ELSE IF t = "BLK"
               THEN IF x1.inbuf # <<>>
                    THEN DecompressStreamIn([x1 EXCEPT !.pend = Dec(x1.inbuf), !.inbuf = <<>>],
                                            input, out1, cap)
                    ELSE DecompressStreamIn([x1 EXCEPT !.inbuf = <<"BLK">>],
                                            Tail(input), out1, cap)
               ELSE IF t \in {"x", "y"}
               THEN IF x1.inbuf = <<>> THEN bad
                    ELSE DecompressStreamIn([x1 EXCEPT !.inbuf = Append(@, t)],
                                            Tail(input), out1, cap)
               ELSE IF t = "END"
               THEN DecompressStreamIn([x1 EXCEPT !.pend = Dec(x1.inbuf), !.inbuf = <<>>,
                                                  !.stage = "done"],
                                       Tail(input), out1, cap)
               ELSE bad

\* copy_stream(): ofh.write(data) and the bookkeeping after it
CopyWrite(o, data) ==
    [o EXCEPT !.out = @ \o data,
              !.events = Append(@, "write"),
              !.ret = <<@[1], @[2] + Len(data)>>]

\* What the environment does to one copy_stream call: nothing, an exception
\* raised by the k-th ifh.read() (or a result that is not bytes), an engine
\* error on the k-th engine step, an exception raised by the k-th
\* ofh.write().
CopyFaults ==
    {NoFault} \cup {[kind |-> k, at |-> i] : k \in {"read", "engine", "write"},
                                            i \in 1..MaxFaultAt}

\* copy_stream(): the inner loop  while in_buffer.pos < in_buffer.size
\* The call that failed is marked with "!" in events.
RECURSIVE CopyPump(_, _, _, _)
CopyPump(o, rest, cap, fault) ==
    IF rest = <<>> THEN o
    ELSE LET r == IF fault.kind = "engine" /\ fault.at = o.steps + 1
                  THEN [dctx |-> [o.dctx EXCEPT !.stage = "error"], err |-> TRUE,
                        zresult |-> 0, out |-> <<>>, rest |-> rest]
                  ELSE DecompressStreamIn(o.dctx, rest, <<>>, cap)
             o1 == [o EXCEPT !.dctx = r.dctx, !.steps = @ + 1,
                             !.events = Append(@, IF r.err THEN "step!" ELSE "step"),
                             !.eng = Append(@, [err |-> r.err, zresult |-> r.zresult,
                                                pos |-> Len(r.out)])]
         IN IF r.err THEN [o1 EXCEPT !.res = "engine"]
            ELSE IF r.out = <<>> THEN CopyPump(o1, r.rest, cap, fault)
            ELSE IF fault.kind = "write" /\ fault.at = Count(o.events, "write") + 1
            THEN [o1 EXCEPT !.events = Append(@, "write!"), !.res = "sink_write"]
            ELSE CopyPump(CopyWrite(o1, r.out), r.rest, cap, fault)

\* copy_stream(): the outer loop: read until the source returns nothing.
\* chunks are the successive non-empty results of ifh.read(read_size); the
\* read after the last of them returns the empty bytes.
RECURSIVE ReadLoop(_, _, _, _)
ReadLoop(o, chunks, cap, fault) ==
    IF fault.kind = "read" /\ fault.at = Count(o.events, "read") + 1
    THEN [o EXCEPT !.events = Append(@, "read!"), !.res = "source_read"]
    ELSE LET o1 == [o EXCEPT !.events = Append(@, "read")]
         IN IF chunks = <<>> THEN o1
            ELSE LET o2 == CopyPump([o1 EXCEPT !.ret = <<@[1] + Len(Head(chunks)), @[2]>>],
                                    Head(chunks), cap, fault)
                 IN IF o2.res # "ok" THEN o2 ELSE ReadLoop(o2, Tail(chunks), cap, fault)

\* copy_stream(ifh, ofh, read_size, write_size)
copy_stream(d, x, has_read, has_write, chunks, write_size, fault) ==
    IF ~has_read THEN DFail(DStart(x), "no_read")
    ELSE IF ~has_write THEN DFail(DStart(x), "no_write")
    ELSE LET o == setup_dctx(d, DStart(x), TRUE)
         IN IF o.res # "ok" THEN o
            ELSE LET o1 == ReadLoop(o, chunks, write_size, fault)
                 IN IF o1.res # "ok" THEN [o1 EXCEPT !.ret = <<0, 0>>] ELSE o1

\* The methods that spawn an object sharing the context.
Kinds == {"decompressobj", "read_to_iter", "stream_reader", "stream_writer"}

\* (faulty variant) spawning without the reset of the context
spawn_noreset(d, x, kind, write_size, read_size, skip_bytes, has_read) ==
    IF kind = "decompressobj" /\ write_size < 1 THEN DFail(DStart(x), "write_size")
    ELSE IF kind = "read_to_iter" /\ skip_bytes >= read_size
    THEN DFail(DStart(x), "skip_bytes")
    ELSE IF kind = "read_to_iter" /\ ~has_read THEN DFail(DStart(x), "no_read")
    ELSE DStart(x)

\* decompressobj(), read_to_iter(), stream_reader(), stream_writer(): the
\* checks of the arguments, then setup_dctx(py, true); the object is then
\* built around a clone of the handle to the context.
spawn(d, x, kind, write_size, read_size, skip_bytes, has_read) ==
    IF kind = "decompressobj" /\ write_size < 1 THEN DFail(DStart(x), "write_size")
    ELSE IF kind = "read_to_iter" /\ skip_bytes >= read_size
    THEN DFail(DStart(x), "skip_bytes")
    ELSE IF kind = "read_to_iter" /\ ~has_read THEN DFail(DStart(x), "no_read")
    ELSE setup_dctx(d, DStart(x), TRUE)

\* The compressed stream a spawned object is handed, piece by piece.
ObjStream == <<"HDR", "BLK", "x", "END">>

\* A spawned object as the caller holds it: how much of its stream it has
\* been handed (pos), whether the frame it is decoding is in progress
\* (inframe) and how its last call ended.
NewObj(kind) == [kind |-> kind, pos |-> 0, inframe |-> FALSE, res |-> "ok"]

\* A spawned object handed the next n tokens of its stream: one engine step
\* on the shared context with them.  The frame is in progress when the
\* step reports more to come.
feed(x, ob, n) ==
    LET input == SubSeq(ObjStream, ob.pos + 1, Min(ob.pos + n, Len(ObjStream)))
        r == DecompressStreamIn(x, input, <<>>, Len(ObjStream))
        o == [DStart(r.dctx) EXCEPT !.steps = 1, !.events = <<"step">>,
                                    !.eng = <<[err |-> r.err, zresult |-> r.zresult,
                                               pos |-> Len(r.out)]>>,
                                    !.out = r.out]
    IN [o |-> IF r.err THEN DFail(o, "engine") ELSE o,
        obj |-> [ob EXCEPT !.pos = @ + Len(input),
                           !.inframe = ~r.err /\ r.zresult # 0,
                           !.res = IF r.err THEN "engine" ELSE "ok"]]

\* ZstdDecompressor::new with a dictionary (or "none") and a window limit
NewDecompressor(dict_data, max_window_size) ==
    /\ dec = [dict_data |-> dict_data, max_window_size |-> max_window_size]
    /\ dctx = FreshDCtx
    /\ dcall = [op |-> "new", frame |-> <<>>, max_output_size |-> 0,
                read_size |-> 0, write_size |-> 0,
                res |-> "ok", out |-> <<>>, steps |-> 0, resets |-> 0,
                events |-> <<>>, eng |-> <<>>, alloc |-> 0, index |-> 0, ret |-> <<0, 0>>]
    /\ objs = <<>>

(***************************************************************************)
(* The actions of the writer: one per method call.                         *)
(***************************************************************************)
Faulted(o) == o.res \in {"engine", "sink_write", "sink_flush", "sink_close"}

\* What a call leaves behind: the new state and the record of the call.
Return(op, len, mode, o, h) ==
    /\ self' = o.self
    /\ cctx' = o.cctx
    /\ sink' = o.sink
    /\ call' = [op |-> op, len |-> len, mode |-> mode, res |-> o.res, ret |-> o.ret,
                events |-> o.events, steps |-> o.steps, trace |-> o.trace,
                entered |-> self.entered]
    /\ hist' = [h EXCEPT !.clean = @ /\ ~Faulted(o)]
    /\ env' = [data |-> IF self.closed THEN env.data
                        ELSE env.data - len - (IF op = "flush" /\ mode = FLUSH_FRAME THEN 1 ELSE 0),
               faults |-> IF Faulted(o) THEN env.faults - 1 ELSE env.faults]
    /\ UNCHANGED <<pump, dvars>>

Closes(o) ==
    [hist EXCEPT !.endReq = @ \/ ~self.closed,
                 !.firstClose = IF self.closed THEN @ ELSE o.res]

\* No pump loop is running.
Idle == [op |-> "idle", rest |-> <<>>, directive |-> "none", iter |-> 0]

\* ZstdCompressionWriter::new with buffer size ws, the two mode flags, and a
\* sink that has (or lacks) flush() and close().
New(ws, wrr, cfd, hf, hc) ==
    /\ self = [write_size |-> ws, write_return_read |-> wrr, closefd |-> cfd,
               entered |-> FALSE, closing |-> FALSE, closed |-> FALSE,
               bytes_compressed |-> 0, dest_buffer |-> <<>>]
    /\ cctx = FreshCCtx
    /\ sink = [data |-> <<>>, closes |-> 0, hasFlush |-> hf, hasClose |-> hc]
    /\ call = [op |-> "new", len |-> 0, mode |-> 0, res |-> "ok", ret |-> 0,
               events |-> <<>>, steps |-> 0, trace |-> <<>>, entered |-> FALSE]
    /\ hist = [written |-> <<>>, clean |-> TRUE, frameEndOk |-> FALSE,
               endReq |-> FALSE, firstClose |-> "none"]
    /\ pump = Idle

\* Lifecycle and error handling: every buffer size, ownership and kind of
\* sink, faults, little data (write() returning the bytes consumed).
Init ==
    /\ \E ws \in 1..MaxWriteSize, cfd \in BOOLEAN, hf \in BOOLEAN, hc \in BOOLEAN :
          New(ws, TRUE, cfd, hf, hc)
    /\ env = [data |-> MaxLifeData, faults |-> MaxFaults]
    /\ NewDecompressor("none", 0)

\* The data path: both return modes of write(), a file-like sink that the
\* writer owns, no faults, more data.
DataInit ==
    /\ \E ws \in 1..MaxWriteSize, wrr \in BOOLEAN : New(ws, wrr, TRUE, TRUE, TRUE)
    /\ env = [data |-> MaxData, faults |-> 0]
    /\ NewDecompressor("none", 0)

Enter ==
    Return("enter", 0, 0, enter(self, cctx, sink), hist)

Exit ==
    \E fault \in Faults({"close"}) :
        LET o == exit(self, cctx, sink, fault)
        IN Return("exit", 0, 0, o, Closes(o))

Close ==
    \E fault \in Faults({"close"}) :
        LET o == close(self, cctx, sink, fault)
        IN Return("close", 0, 0, o, Closes(o))

Write ==
    \E data \in SeqsUpTo(Min(MaxChunk, env.data)), fault \in Faults({}) :
        LET o == write(self, cctx, sink, data, fault)
        IN Return("write", Len(data), 0, o,
                  [hist EXCEPT !.written = IF o.res = "ok" THEN @ \o data ELSE @])

Flush ==
    \E flush_mode \in {FLUSH_BLOCK, FLUSH_FRAME, 2}, fault \in Faults({"flush"}) :
        /\ flush_mode = FLUSH_FRAME => self.closed \/ env.data > 0
        /\ LET o == flush(self, cctx, sink, flush_mode, fault)
           IN Return("flush", 0, flush_mode, o,
                     [hist EXCEPT !.frameEndOk = @ \/ (flush_mode = FLUSH_FRAME /\ o.res = "ok"),
                                  !.endReq = @ \/ (flush_mode = FLUSH_FRAME /\ ~self.closed)])

Unsupported ==
    \E op \in ReadFamily \cup {"writelines"} :
        Return(op, 0, 0, unsupported(self, cctx, sink, op), hist)

Next == Enter \/ Exit \/ Close \/ Write \/ Flush

Spec == Init /\ [][Next]_vars

DataSpec == DataInit /\ [][Next]_vars

\* The structurally unsupported operations, in every writer state.
IoInit ==
    /\ \E ws \in 1..MaxWriteSize, cfd \in BOOLEAN, hf \in BOOLEAN, hc \in BOOLEAN :
          New(ws, TRUE, cfd, hf, hc)
    /\ env = [data |-> MaxLifeData, faults |-> 0]
    /\ NewDecompressor("none", 0)

IoNext == Next \/ Unsupported

IoSpec == IoInit /\ [][IoNext]_vars

(***************************************************************************)
(* The actions of the decompressor.                                        *)
(***************************************************************************)
DReturn(op, frame, max_output_size, o) ==
    /\ dctx' = o.dctx
    /\ dcall' = [op |-> op, frame |-> frame, max_output_size |-> max_output_size,
                 read_size |-> 0, write_size |-> 0,
                 res |-> o.res, out |-> o.out, steps |-> o.steps, resets |-> o.resets,
                 events |-> o.events, eng |-> o.eng, alloc |-> o.alloc, index |-> o.index,
                 ret |-> o.ret]
    /\ UNCHANGED <<dec, objs, wvars>>

DInit ==
    /\ New(1, TRUE, TRUE, TRUE, TRUE)
    /\ env = [data |-> 0, faults |-> 0]
    /\ \E dd \in Dicts, mws \in 0..(WindowMax + 1) : NewDecompressor(dd, mws)

Decompress ==
    \E buffer \in Frames, max_output_size \in 0..MaxOutputSize, alloc_ok \in BOOLEAN :
        DReturn("decompress", <<buffer>>, max_output_size,
                decompress(dec, dctx, buffer, max_output_size, alloc_ok))

DNext == Decompress

DSpec == DInit /\ [][DNext]_vars

(***************************************************************************)
(* Chain decompression.  The chains handed to the decompressor: contents   *)
(* C1 .. Cn, frame i encoding Ci against C(i-1), and one element of the    *)
(* chain possibly replaced by a defective one.                             *)
(***************************************************************************)
Links == {[j \in 1..MaxLink |-> b] : b \in Bytes}

Good(c, r) ==
    [hdr |-> TRUE, size |-> Len(c), content |-> c, complete |-> TRUE,
     dict |-> "none", ref |-> r, bytes |-> TRUE]

Linked(cs) == [i \in 1..Len(cs) |-> Good(cs[i], IF i = 1 THEN NoRef ELSE cs[i - 1])]

Defects == {"none", "type", "header", "nosize", "truncated", "short", "long", "dict", "ref"}

Defective(f, k) ==
    CASE k = "none" -> f
      [] k = "type" -> [f EXCEPT !.bytes = FALSE]
      [] k = "header" -> BadFrame
      [] k = "nosize" -> [f EXCEPT !.size = ZSTD_CONTENTSIZE_UNKNOWN]
      [] k = "truncated" -> [f EXCEPT !.complete = FALSE]
      [] k = "short" -> [f EXCEPT !.size = @ + 1]
      [] k = "long" -> [f EXCEPT !.size = @ - 1]
      [] k = "dict" -> [f EXCEPT !.dict = "d1"]
      [] k = "ref" -> [f EXCEPT !.ref = IF f.ref = <<"a">> THEN <<"b">> ELSE <<"a">>]

Chains ==
    {<<>>} \cup
    UNION {{[Linked(cs) EXCEPT ![i] = Defective(@, k)] : i \in 1..Len(cs), k \in Defects} :
              cs \in UNION {[1..n -> Links] : n \in 1..MaxChain}}

ChainInit ==
    /\ New(1, TRUE, TRUE, TRUE, TRUE)
    /\ env = [data |-> 0, faults |-> 0]
    /\ \E dd \in Dicts : NewDecompressor(dd, 0)

Chain ==
    \E frames \in Chains :
        DReturn("chain", frames, 0, chain(dec, dctx, frames))

ChainNext == Chain

ChainSpec == ChainInit /\ [][ChainNext]_vars

(***************************************************************************)
(* copy_stream.  The source holds the compressed stream a writer produced  *)
(* and closed; what it returns read by read (the chunking) is its own      *)
(* choice, within read_size.                                               *)
(***************************************************************************)
\* The ways a source hands over stream t in reads of at most n tokens: in
\* full reads, or with one read cut short.
FullReads(t, n) ==
    [i \in 1..((Len(t) + n - 1) \div n) |-> SubSeq(t, (i - 1) * n + 1, Min(i * n, Len(t)))]

Chunkings(t, n) ==
    {FullReads(t, n)} \cup
    {<<SubSeq(t, 1, p)>> \o FullReads(Tail2(t, p), n) :
        p \in {q \in 1..Len(t) : q < n}} \cup
    {FullReads(SubSeq(t, 1, p), n) \o FullReads(Tail2(t, p), n) : p \in 1..Len(t)}

CopyInit ==
    /\ New(1, TRUE, TRUE, TRUE, TRUE)
    /\ env = [data |-> MaxCopyData, faults |-> 0]
    /\ NewDecompressor("none", 0)

\* The calls that produce the stream.
Produce == ~self.closed /\ (Write \/ Flush \/ Close)

CReturn(chunks, read_size, write_size, o) ==
    /\ dctx' = o.dctx
    /\ dcall' = [op |-> "copy_stream", frame |-> chunks, max_output_size |-> 0,
                 read_size |-> read_size, write_size |-> write_size,
                 res |-> o.res, out |-> o.out, steps |-> o.steps, resets |-> o.resets,
                 events |-> o.events, eng |-> o.eng, alloc |-> o.alloc, index |-> o.index,
                 ret |-> o.ret]
    /\ UNCHANGED <<dec, objs, wvars>>

CopyStream ==
    /\ self.closed
    /\ \/ \E read_size \in 1..MaxReadSize, write_size \in 1..MaxWriteSize :
             \E chunks \in Chunkings(sink.data, read_size) :
                 CReturn(chunks, read_size, write_size,
                         copy_stream(dec, dctx, TRUE, TRUE, chunks, write_size, NoFault))
       \/ \E has_read \in BOOLEAN :
             CReturn(<<sink.data>>, MaxReadSize, 1,
                     copy_stream(dec, dctx, has_read, FALSE, <<sink.data>>, 1, NoFault))

CopyNext == Produce \/ CopyStream

CopySpec == CopyInit /\ [][CopyNext]_vars

\* The same calls with an engine, a sink and a source that may fail: the
\* writer's calls under the faults of Faults, then the decompressor's first
\* call, a copy_stream of what the sink holds, read a token at a time or
\* in one read, written through a one-byte buffer, under the faults of
\* CopyFaults.
ErrInit ==
    /\ New(1, TRUE, TRUE, TRUE, TRUE)
    /\ env = [data |-> MaxData, faults |-> MaxFaults]
    /\ NewDecompressor("none", 0)

CopyStreamFaulty ==
    /\ self.closed
    /\ dcall.op = "new"
    /\ \E read_size \in {1, Len(sink.data)} \ {0}, fault \in CopyFaults :
          LET chunks == FullReads(sink.data, read_size)
          IN CReturn(chunks, read_size, 1,
                     copy_stream(dec, dctx, TRUE, TRUE, chunks, 1, fault))

ErrNext == Produce \/ CopyStreamFaulty

ErrSpec == ErrInit /\ [][ErrNext]_vars

(***************************************************************************)
(* The pump loops of the writer, iteration by iteration.  new() takes any  *)
(* write_size, 0 included (Vec::with_capacity(write_size)).  A call of     *)
(* write(), flush() or close() on an open writer enters its loop; each     *)
(* iteration is one engine step and the forwarding of its output; the call *)
(* returns when the loop ends.  No faults.                                 *)
(***************************************************************************)
TermInit ==
    /\ \E ws \in 0..MaxWriteSize : New(ws, TRUE, TRUE, TRUE, TRUE)
    /\ env = [data |-> MaxData, faults |-> 0]
    /\ NewDecompressor("none", 0)

Begin(op, rest, directive, s, len) ==
    /\ pump' = [op |-> op, rest |-> rest, directive |-> directive, iter |-> 0]
    /\ self' = s
    /\ env' = [env EXCEPT !.data = @ - len]
    /\ UNCHANGED <<cctx, sink, call, hist, dvars>>

\* write(data) with data to consume: in_buffer.pos < in_buffer.size
BeginWrite ==
    /\ pump.op = "idle" /\ ~self.closed
    /\ \E data \in SeqsUpTo(Min(MaxChunk, env.data)) \ {<<>>} :
          Begin("write", data, "continue", self, Len(data))

\* flush(flush_mode)
BeginFlush ==
    /\ pump.op = "idle" /\ ~self.closed
    /\ \E flush_mode \in {FLUSH_BLOCK, FLUSH_FRAME} :
          /\ flush_mode = FLUSH_FRAME => env.data > 0
          /\ Begin("flush", <<>>, FlushDirective(flush_mode), self,
                   IF flush_mode = FLUSH_FRAME THEN 1 ELSE 0)

\* close(): self.closing = true, then flush(FLUSH_FRAME)
BeginClose ==
    /\ pump.op = "idle" /\ ~self.closed
    /\ Begin("close", <<>>, FlushDirective(FLUSH_FRAME), [self EXCEPT !.closing = TRUE], 0)

\* One iteration of the loop of write() or of flush(), and what follows the
\* loop when the iteration ends it.
Iterate ==
    /\ pump.op # "idle"
    /\ LET r == CompressStream2(cctx, pump.rest, <<>>, Capacity(self), pump.directive)
           o == Forward(Start(self, cctx, sink), r, NoFault)
           done == IF pump.op = "write" THEN r.rest = <<>> ELSE r.zresult = 0
           f == SinkFlush(o, NoFault)
           o1 == IF ~done \/ pump.op = "write" THEN o
                 ELSE IF pump.op = "flush" THEN f
                 ELSE SinkClose([f EXCEPT !.self.closing = FALSE, !.self.closed = TRUE],
                                NoFault)
       IN /\ self' = o1.self
          /\ cctx' = o1.cctx
          /\ sink' = o1.sink
          /\ pump' = IF done THEN Idle
                     ELSE [pump EXCEPT !.rest = r.rest, !.iter = (@ + 1) % 2]
          /\ UNCHANGED <<call, hist, env, dvars>>

TermNext == BeginWrite \/ BeginFlush \/ BeginClose \/ Iterate

\* The thread that made the call keeps running its loop.
TermSpec == TermInit /\ [][TermNext]_vars /\ WF_vars(Iterate)

(***************************************************************************)
(* A decompressor and the objects it spawns, which share its context.      *)
(***************************************************************************)
ShareFrames == {Good(<<"a">>, NoRef), Defective(Good(<<"a">>, NoRef), "truncated")}

ShareInit ==
    /\ New(1, TRUE, TRUE, TRUE, TRUE)
    /\ env = [data |-> 0, faults |-> 0]
    /\ \E dd \in Dicts : NewDecompressor(dd, 0)

SReturn(op, frame, o, obs) ==
    /\ dctx' = o.dctx
    /\ dcall' = [op |-> op, frame |-> frame, max_output_size |-> 0,
                 read_size |-> 0, write_size |-> 0,
                 res |-> o.res, out |-> o.out, steps |-> o.steps, resets |-> o.resets,
                 events |-> o.events, eng |-> o.eng, alloc |-> o.alloc, index |-> o.index,
                 ret |-> o.ret]
    /\ objs' = obs
    /\ UNCHANGED <<dec, wvars>>

\* One of the spawning methods is called; the caller keeps the object if
\* it holds fewer than MaxObjs, and lets it go otherwise.
Spawn ==
    \E kind \in Kinds, write_size \in 0..1, skip_bytes \in 0..1, has_read \in BOOLEAN :
        LET o == spawn(dec, dctx, kind, write_size, 1, skip_bytes, has_read)
        IN SReturn(kind, <<>>, o,
                   IF o.res = "ok" /\ Len(objs) < MaxObjs
                   THEN Append(objs, NewObj(kind)) ELSE objs)

\* A spawned object is handed the next piece of its stream.
Feed ==
    \E i \in 1..Len(objs), n \in 1..MaxFeed :
        /\ objs[i].res = "ok"
        /\ objs[i].pos < Len(ObjStream)
        /\ LET r == feed(dctx, objs[i], n)
           IN SReturn("feed", <<>>, r.o, [objs EXCEPT ![i] = r.obj])

SDecompress ==
    \E buffer \in ShareFrames :
        SReturn("decompress", <<buffer>>, decompress(dec, dctx, buffer, 0, TRUE), objs)

SChain ==
    \E buffer \in ShareFrames :
        SReturn("chain", <<buffer>>, chain(dec, dctx, <<buffer>>), objs)

SCopyStream ==
    \E read_size \in 1..MaxReadSize :
        LET chunks == FullReads(ObjStream, read_size)
        IN SReturn("copy_stream", chunks,
                   copy_stream(dec, dctx, TRUE, TRUE, chunks, Len(ObjStream), NoFault), objs)

ShareNext == Spawn \/ Feed \/ SDecompress \/ SChain \/ SCopyStream

ShareSpec == ShareInit /\ [][ShareNext]_vars

(***************************************************************************)
(* Properties of the compression writer.                                   *)
(***************************************************************************)
ValidFlush(k) == k.op = "flush" /\ k.mode \in {FLUSH_BLOCK, FLUSH_FRAME}

State == <<self, cctx, sink>>

\* C1: close() is idempotent.  A close() of a writer that is already
\* closed returns success, makes no engine step and no sink call, and
\* leaves the writer (closed, entered, closing, byte counter, buffer), the
\* context and the sink unchanged, whether the close that closed the writer
\* succeeded or failed.
C1_CloseIdempotent ==
    [][(self.closed /\ call'.op = "close")
         => /\ call'.res = "ok"
            /\ call'.steps = 0
            /\ call'.events = <<>>
            /\ State' = State]_vars

\* A second close() after a close() whose finalizing flush failed.
C1_Witness ==
    /\ call.op = "close" /\ call.res = "ok" /\ call.steps = 0
    /\ self.closed
    /\ hist.firstClose \in {"engine", "sink_write"}

\* C2: close() is best-effort.  A close() of an open writer leaves the
\* writer closed whatever its finalizing flush did, and returns the flush's
\* failure to its caller; once a close() has failed, every later close()
\* (and exit) returns success without an engine step, and every later
\* write() and flush() fails as closed without an engine step.
C2_BestEffortClose ==
    [][/\ (call'.op = "close" /\ ~self.closed)
            => /\ self'.closed /\ ~self'.closing
               /\ call'.steps >= 1
       /\ (hist.firstClose \in {"engine", "sink_write"})
            => /\ self.closed /\ self'.closed
               /\ call'.op \in {"close", "exit"} => (call'.res = "ok" /\ call'.steps = 0)
               /\ (call'.op = "write" \/ ValidFlush(call'))
                     => (call'.res = "closed" /\ call'.steps = 0)
               /\ sink'.data = sink.data]_vars

\* A write() of data refused as closed after a close() whose flush failed.
C2_Witness ==
    /\ hist.firstClose \in {"engine", "sink_write"}
    /\ call.op = "write" /\ call.len > 0 /\ call.res = "closed"

\* The sink calls a close() makes: no sink flush, and the sink's close(), if
\* any, once and last.
CloseEvents(ev) ==
    /\ Count(ev, "flush") = 0
    /\ Count(ev, "close") <= 1
    /\ Count(ev, "close") = 1 => ev[Len(ev)] = "close"

\* C3 as stated: an owned sink's close() is called exactly once by close()
\* whether or not the finalizing flush failed, and a sink that is not owned
\* is never closed.
C3_Original ==
    (self.closed /\ sink.hasClose) => sink.closes = (IF self.closefd THEN 1 ELSE 0)

\* C3, amended: close() on an open writer flushes with FLUSH_FRAME (the
\* sink's flush suppressed), marks the writer closed, and surfaces a flush
\* error before it touches the sink: the sink's close() is called, once and
\* after the last forwarded chunk, exactly when the flush succeeded, the
\* writer owns the sink (closefd) and the sink has a close method.
C3_CloseOrder ==
    /\ sink.closes =
           (IF /\ self.closed /\ self.closefd /\ sink.hasClose
               /\ hist.firstClose \in {"ok", "sink_close"}
            THEN 1 ELSE 0)
    /\ call.op \in {"close", "exit"} =>
           /\ CloseEvents(call.events)
           /\ self.closed /\ ~self.closing
           /\ call.res \in {"engine", "sink_write"} => Count(call.events, "close") = 0

\* A close() of an owned sink whose flush failed after a chunk had reached
\* the sink: the writer is closed and the sink is not.
C3_Witness ==
    /\ call.op = "close" /\ call.res = "sink_write"
    /\ Len(sink.data) > 0
    /\ self.closed /\ self.closefd /\ sink.hasClose
    /\ sink.closes = 0

\* C4: on a closed writer write(), flush() and __enter__ fail with the
\* closed-stream error, making no engine step and no sink call and changing
\* nothing.
C4_ClosedRejects ==
    [][(self.closed /\ (call'.op \in {"write", "enter"} \/ ValidFlush(call')))
         => /\ call'.res = "closed"
            /\ call'.steps = 0
            /\ call'.events = <<>>
            /\ State' = State]_vars

\* __enter__ refused on a writer that __exit__ closed.
C4_Witness ==
    /\ call.op = "enter" /\ call.res = "closed"
    /\ self.closed /\ ~self.entered

\* C5: in every writer state read, readall, readinto, readline, readlines,
\* seek and truncate fail with the unsupported-operation error and change
\* nothing.
C5_Unsupported ==
    [][(call'.op \in ReadFamily)
         => /\ call'.res = "unsupported"
            /\ call'.steps = 0
            /\ call'.events = <<>>
            /\ State' = State]_vars

\* truncate refused on an entered writer that has compressed data.
C5_Witness ==
    /\ call.op = "truncate" /\ call.res = "unsupported"
    /\ self.entered /\ ~self.closed
    /\ cctx.inbuf # <<>>

\* C6: __enter__ succeeds exactly when the writer is neither entered nor
\* closed, and otherwise fails and changes nothing; __exit__ runs close(),
\* so after it the writer is closed and not entered, with or without a
\* close error; a closed writer stays closed, so a later __enter__ fails.
C6_Scope ==
    [][/\ call'.op = "enter" =>
            /\ cctx' = cctx /\ sink' = sink
            /\ IF ~self.entered /\ ~self.closed
               THEN call'.res = "ok" /\ self' = [self EXCEPT !.entered = TRUE]
               ELSE call'.res \in {"closed", "entered"} /\ self' = self
       /\ call'.op = "exit" => (self'.closed /\ ~self'.entered)
       /\ self.closed => self'.closed]_vars

\* __exit__ of an entered writer whose close() failed.
C6_Witness ==
    /\ call.op = "exit" /\ call.res \in {"engine", "sink_write", "sink_close"}
    /\ call.entered /\ call.steps >= 1
    /\ self.closed /\ ~self.entered

\* C7: round trip.  When no call failed and no frame was ended before
\* close(), the chunks the sink holds once the writer is closed are one
\* frame that decodes to the bytes written, however they were split into
\* write() calls and whatever Block flushes came between.
C7_RoundTrip ==
    (self.closed /\ hist.clean /\ ~hist.frameEndOk)
        => DecodeFrame(sink.data) = [ok |-> TRUE, data |-> hist.written, rest |-> <<>>]

\* Three bytes written in at least two calls through a one-token buffer, a
\* Block flush having split them into two blocks.
C7_Witness ==
    /\ self.closed /\ hist.clean /\ ~hist.frameEndOk
    /\ Len(hist.written) = 3
    /\ self.write_size = 1
    /\ Count(sink.data, "BLK") >= 2

\* C8: a Block flush never ends the frame.  A successful flush(FLUSH_BLOCK)
\* puts no end marker in the sink and leaves an open frame open; an end
\* marker reaches the sink only after a flush(FLUSH_FRAME) or a close() was
\* called; and with Block flushes only, every write extends one frame, which
\* the sink holds complete once the writer is closed.
C8_BlockFlush ==
    [][/\ (call'.op = "flush" /\ call'.mode = FLUSH_BLOCK /\ call'.res = "ok")
            => /\ Count(sink'.data, "END") = Count(sink.data, "END")
               /\ ~cctx'.frameEnded
               /\ cctx.hdr => cctx'.hdr
       /\ Count(sink'.data, "END") > 0 => hist'.endReq
       /\ (self'.closed /\ hist'.clean /\ ~hist'.frameEndOk)
            => /\ Count(sink'.data, "HDR") = 1
               /\ Count(sink'.data, "END") = 1
               /\ sink'.data[Len(sink'.data)] = "END"]_vars

\* Two bytes that a Block flush split into two blocks of one frame.
C8_Witness ==
    /\ self.closed /\ hist.clean /\ ~hist.frameEndOk
    /\ Len(hist.written) = 2
    /\ Count(sink.data, "BLK") = 2
    /\ Count(sink.data, "HDR") = 1

\* C9 as stated: after a successful flush(FLUSH_FRAME) a write() feeds no
\* data to the engine.
C9_Original ==
    (hist.frameEndOk /\ call.op = "write") => call.steps = 0

\* C9, amended: a successful flush(FLUSH_FRAME) ends the frame and leaves
\* the writer open.  A later write() is accepted: it feeds its data to the
\* engine, which starts a new frame after the ended one, and what the sink
\* held stays; once the writer is closed the sink holds the frames in order,
\* which decode to the bytes written.  Only close() makes a write() invalid.
C9_WriteAfterFrameEnd ==
    [][/\ (call'.op = "flush" /\ ~self.closed) => ~self'.closed
       /\ (call'.op = "write" /\ ~self.closed) => call'.res # "closed"
       /\ (hist.frameEndOk /\ ~self.closed /\ call'.op = "write" /\ call'.len > 0)
            => /\ call'.steps >= 1
               /\ call'.res = "ok" => Len(hist'.written) = Len(hist.written) + call'.len
               /\ IsPrefix(sink.data, sink'.data)
       /\ (self'.closed /\ hist'.clean)
            => DecodeAll(sink'.data, <<>>) = [ok |-> TRUE, data |-> hist'.written]]_vars

\* A closed writer whose sink holds two frames, the second with the data
\* written after the flush(FLUSH_FRAME).
C9_Witness ==
    /\ self.closed /\ hist.clean /\ hist.frameEndOk
    /\ call.op = "close"
    /\ Count(sink.data, "HDR") = 2
    /\ DecodeFrame(sink.data).ok
    /\ DecodeFrame(DecodeFrame(sink.data).rest).data # <<>>

Held(c) == Len(c.inbuf) + Len(Dec(c.pend))

Emitted(k) == Len(Dec(k.data))

\* C18: a successful write(data) has fed all of data to the engine (every
\* byte of it is in the engine or in the sink when the call returns); it
\* returns len(data) when write_return_read is set, and otherwise the
\* number of bytes this call forwarded to the sink, which is the increase
\* of tell() over the call and may be 0.
C18_WriteReturn ==
    [][(call'.op = "write" /\ call'.res = "ok")
         => /\ Held(cctx') + Emitted(sink') = Held(cctx) + Emitted(sink) + call'.len
            /\ hist'.written = hist.written \o SubSeq(hist'.written, Len(hist.written) + 1,
                                                      Len(hist'.written))
            /\ Len(hist'.written) = Len(hist.written) + call'.len
            /\ self.write_return_read => call'.ret = call'.len
            /\ ~self.write_return_read
                  => /\ call'.ret = Len(sink'.data) - Len(sink.data)
                     /\ call'.ret = tell(self') - tell(self)]_vars

\* A write() in bytes-written mode that returned more than it was given.
C18_Witness ==
    /\ call.op = "write" /\ call.res = "ok" /\ call.len > 0
    /\ ~self.write_return_read
    /\ call.ret > call.len

\* C19: a successful flush() called on the writer calls the flush of a sink
\* that has one exactly once, after every chunk the call wrote; the flush
\* that close() (or __exit__) runs never calls the sink's flush; and the
\* closing marker is not set in any state between calls, a failed close()
\* included.
C19_FlushSuppression ==
    /\ ~self.closing
    /\ (ValidFlush(call) /\ call.res = "ok")
          => /\ Count(call.events, "flush") = (IF sink.hasFlush THEN 1 ELSE 0)
             /\ sink.hasFlush => call.events[Len(call.events)] = "flush"
    /\ ValidFlush(call) => Count(call.events, "flush") <= 1
    /\ call.op \in {"close", "exit"}
          => /\ Count(call.events, "flush") = 0
             /\ call.res # "sink_flush"

\* A flush() that wrote chunks and then flushed the sink.
C19_Witness ==
    /\ ValidFlush(call) /\ call.res = "ok"
    /\ sink.hasFlush
    /\ Count(call.events, "write") >= 2
    /\ Count(call.events, "flush") = 1
    /\ call.events[Len(call.events)] = "flush"

(***************************************************************************)
(* Properties of the decompressor.                                         *)
(***************************************************************************)
\* C10: one-shot decompress of a frame whose header declares content size
\* 0 returns an empty result without an engine decompression step, for
\* every max_output_size (and whatever the frame holds), once the setup of
\* the context that precedes the inspection of the header has succeeded.
C10_ZeroSize ==
    (/\ dcall.op = "decompress"
     /\ GetFrameContentSize(dcall.frame[1]) = 0
     /\ dcall.res # "setup")
        => /\ dcall.res = "ok"
           /\ dcall.out = <<>>
           /\ dcall.steps = 0

\* decompress() with a bound, of a frame that declares content size 0 and
\* holds data: empty result, no engine step.
C10_Witness ==
    /\ dcall.op = "decompress"
    /\ GetFrameContentSize(dcall.frame[1]) = 0
    /\ dcall.frame[1].content # <<>>
    /\ dcall.max_output_size > 0
    /\ dcall.res = "ok" /\ dcall.out = <<>> /\ dcall.steps = 0

\* What the engine reported on the one step of a one-shot call.
Step1 == dcall.eng[1]

\* C11: one-shot decompress of a frame whose header declares no content
\* size.  Without a bound (max_output_size = 0) the call fails, for the
\* missing bound, before any engine step and before any allocation.  With a
\* bound the destination reserved is exactly the bound and the engine is
\* stepped once on it; when the bound is smaller than the content the call
\* fails with the engine's error or as incomplete, and returns no data.
\* (Setting up the context and reserving the destination come first and
\* may fail; then there is no engine step either.)
C11_UnknownSize ==
    (/\ dcall.op = "decompress"
     /\ GetFrameContentSize(dcall.frame[1]) = ZSTD_CONTENTSIZE_UNKNOWN
     /\ dcall.res # "setup")
        => /\ dcall.max_output_size = 0
                => (dcall.res = "no_size" /\ dcall.steps = 0 /\ dcall.alloc = 0
                    /\ dcall.out = <<>>)
           /\ dcall.max_output_size > 0
                => \/ dcall.res = "memory" /\ dcall.steps = 0
                   \/ /\ dcall.res \in {"ok", "engine", "incomplete"}
                      /\ dcall.steps = 1
                      /\ dcall.alloc = dcall.max_output_size
                      /\ Len(dcall.out) <= dcall.max_output_size
           /\ (/\ dcall.max_output_size > 0
               /\ Len(dcall.frame[1].content) > dcall.max_output_size)
                => /\ dcall.res \in {"memory", "engine", "incomplete"}
                   /\ dcall.out = <<>>

\* A complete frame of unknown size decoded under a bound smaller than its
\* content: the engine filled the destination, the call failed as
\* incomplete and returned nothing.
C11_Witness ==
    /\ dcall.op = "decompress"
    /\ GetFrameContentSize(dcall.frame[1]) = ZSTD_CONTENTSIZE_UNKNOWN
    /\ dcall.frame[1].complete
    /\ dcall.max_output_size > 0
    /\ Len(dcall.frame[1].content) > dcall.max_output_size
    /\ dcall.res = "incomplete" /\ dcall.steps = 1
    /\ Step1.pos = dcall.max_output_size
    /\ dcall.out = <<>>

\* C12: one-shot decompress steps the engine at most once, and exactly once
\* when the header and the allocation let the call reach the engine (a
\* declared size of 0 returns empty before that).  A call that reached the
\* engine succeeds exactly when the step reported no error, reported the
\* frame resolved (0), and, the header declaring an exact size n, produced n
\* bytes; so a successful result for a frame of known size has the declared
\* length, and every other outcome is an error without data.
C12_OneStep ==
    dcall.op = "decompress" =>
        /\ dcall.steps <= 1
        /\ dcall.steps = Len(dcall.eng)
        /\ dcall.steps = 0 <=>
               \/ dcall.res \in {"setup", "header", "no_size", "memory"}
               \/ dcall.res = "ok" /\ GetFrameContentSize(dcall.frame[1]) = 0
        /\ dcall.steps = 1 =>
               /\ dcall.res = "ok" <=>
                      /\ ~Step1.err
                      /\ Step1.zresult = 0
                      /\ GetFrameContentSize(dcall.frame[1]) > 0
                             => Step1.pos = GetFrameContentSize(dcall.frame[1])
               /\ dcall.res = "ok" => Len(dcall.out) = Step1.pos
        /\ (dcall.res = "ok" /\ GetFrameContentSize(dcall.frame[1]) >= 0)
               => Len(dcall.out) = GetFrameContentSize(dcall.frame[1])
        /\ dcall.res # "ok" => dcall.out = <<>>

\* A frame the engine resolves to fewer bytes than its header declares: one
\* step, no engine error, status 0, and the call fails.
C12_Witness ==
    /\ dcall.op = "decompress"
    /\ dcall.steps = 1
    /\ ~Step1.err /\ Step1.zresult = 0
    /\ Step1.pos < GetFrameContentSize(dcall.frame[1])
    /\ dcall.res = "size_mismatch" /\ dcall.out = <<>>

(***************************************************************************)
(* Properties of chain decompression.                                      *)
(***************************************************************************)
\* The outcome of one-shot decompression (without a bound) of frame F by the
\* decompressor as it stands.
OneShot(F) == decompress(dec, dctx, F, 0, TRUE)

SameOutcome(a, b) ==
    /\ (a.res = "ok") <=> (b.res = "ok")
    /\ a.res = "ok" => a.out = b.out

\* C13 as stated: for every frame F and every decompressor, with or without
\* a configured dictionary, the chain [F] has the outcome of one-shot
\* decompression of F.
C13_Original ==
    [][(dcall'.op = "chain" /\ Len(dcall'.frame) = 1)
         => SameOutcome(dcall', OneShot(dcall'.frame[1]))]_vars

\* The frames on which the two calls are bound to agree: bytes objects
\* whose header, when it declares a content size, declares the length of
\* the content and not 0.
Agreeing(F) ==
    /\ F.bytes
    /\ (F.hdr /\ F.size # ZSTD_CONTENTSIZE_UNKNOWN)
          => (F.size > 0 /\ F.size = Len(F.content))

\* C13, amended: for a decompressor without a configured dictionary and a
\* bytes object F whose header, if it declares a content size, declares the
\* non-zero length of the frame's content, the chain [F] returns the bytes
\* one-shot decompression of F returns, and fails exactly when it fails.
C13_ChainOfOne ==
    [][(/\ dcall'.op = "chain" /\ Len(dcall'.frame) = 1
        /\ dec.dict_data = "none"
        /\ Agreeing(dcall'.frame[1]))
         => SameOutcome(dcall', OneShot(dcall'.frame[1]))]_vars

\* A chain of one frame decoded to its content, as one-shot decompression
\* decodes it.
C13_Witness ==
    /\ dcall.op = "chain" /\ Len(dcall.frame) = 1
    /\ dec.dict_data = "none" /\ Agreeing(dcall.frame[1])
    /\ dcall.res = "ok" /\ dcall.out = dcall.frame[1].content
    /\ dcall.out # <<>>

\* The chains of the claim: frame 1 encodes C1 with no reference, frame i
\* encodes Ci against C(i-1).
IsLinked(fs) ==
    /\ fs # <<>>
    /\ \A i \in 1..Len(fs) :
          fs[i] = Good(fs[i].content, IF i = 1 THEN NoRef ELSE fs[i - 1].content)

\* C14: chain decompression of frames encoding C1 .. Cn, each against the
\* content before it, succeeds with one engine step per frame and returns
\* exactly Cn, the content of the last frame, and nothing of the contents
\* before it.
C14_ChainResult ==
    (dcall.op = "chain" /\ IsLinked(dcall.frame))
        => /\ dcall.res = "ok"
           /\ dcall.out = dcall.frame[Len(dcall.frame)].content
           /\ dcall.steps = Len(dcall.frame)

\* A chain of the longest length whose last content differs from the one
\* before it.
C14_Witness ==
    /\ dcall.op = "chain" /\ IsLinked(dcall.frame)
    /\ Len(dcall.frame) = MaxChain
    /\ dcall.frame[MaxChain].content # dcall.frame[MaxChain - 1].content
    /\ dcall.frame[MaxChain].ref # NoRef
    /\ dcall.res = "ok" /\ dcall.out = dcall.frame[MaxChain].content

\* A chain element that fails header parsing or declares no content size.
Invalid(F) == F.bytes /\ (~F.hdr \/ F.size = ZSTD_CONTENTSIZE_UNKNOWN)

SetupEvents == <<"reset", "set_format">>

\* C20: a chain call that reaches the engine resets the context once, before
\* the step on frame 0; after that it only steps the engine, once per
\* frame decoded: no reset, no parameter change and no dictionary load
\* comes between two frames.  A call that fails before frame 0 is decoded
\* makes no call on the context.
C20_NoResetBetween ==
    dcall.op = "chain" =>
        /\ dcall.resets <= 1
        /\ dcall.steps = 0 => dcall.events \in {<<>>, SetupEvents}
        /\ dcall.steps >= 1 =>
              /\ dcall.resets = 1
              /\ Len(dcall.events) = Len(SetupEvents) + dcall.steps
              /\ SubSeq(dcall.events, 1, Len(SetupEvents)) = SetupEvents
              /\ \A j \in (Len(SetupEvents) + 1)..Len(dcall.events) : dcall.events[j] = "step"
        /\ dcall.res = "ok" => dcall.steps = Len(dcall.frame)

\* A chain of the longest length decoded by one context set up once, by a
\* decompressor that has a dictionary configured.
C20_Witness ==
    /\ dcall.op = "chain" /\ dcall.res = "ok"
    /\ Len(dcall.frame) = MaxChain
    /\ dcall.frame[MaxChain].ref # NoRef
    /\ dec.dict_data # "none"
    /\ dcall.resets = 1 /\ dcall.steps = MaxChain

\* The content size the header of chain element i (counted from 0) declares.
Declared(i) == GetFrameHeader(dcall.frame[i + 1]).frameContentSize

StreamState(s) ==
    IF s.closed THEN "Closed"
    ELSE IF s.closing THEN "Closing"
    ELSE IF s.entered THEN "Entered"
    ELSE "Fresh"

\* C23 as stated: after every enter, exit, write, flush and close call the
\* writer is not both entered and closed, is not closing, and a closed
\* writer is still closed.
C23_Original ==
    [][/\ ~(self'.entered /\ self'.closed)
       /\ ~self'.closing
       /\ self.closed => self'.closed]_vars

\* C23, amended: the lifecycle state is what the flags stand for, closed
\* before closing before entered.  No call returns with the closing flag
\* set; Closed is absorbing; Fresh becomes Entered by __enter__ alone, and
\* Fresh or Entered becomes Closed by close() or __exit__ alone, whether
\* or not they fail.  The flags entered and closed can be set together:
\* close() called on an entered writer leaves entered set, __exit__ clears
\* it, and a closed writer is never entered anew.
C23_Lifecycle ==
    [][/\ ~self'.closing
       /\ self.closed => (self'.closed /\ (self'.entered => self.entered))
       /\ (StreamState(self') = "Entered" /\ StreamState(self) # "Entered")
             => (StreamState(self) = "Fresh" /\ call'.op = "enter" /\ call'.res = "ok")
       /\ (StreamState(self') = "Fresh") => (StreamState(self) = "Fresh")
       /\ (self'.closed /\ ~self.closed) => call'.op \in {"close", "exit"}
       /\ (call'.op \in {"close", "exit"}) => self'.closed
       /\ (self'.entered /\ self'.closed)
             => (self.entered /\ call'.op # "exit")
       /\ (call'.op = "close" /\ self.entered) => (self'.entered /\ self'.closed)]_vars

\* close() called on an entered writer: it is closed and still entered.
C23_Witness ==
    /\ call.op = "close" /\ call.entered
    /\ self.entered /\ self.closed /\ ~self.closing
    /\ StreamState(self) = "Closed"

(***************************************************************************)
(* Error handling.                                                         *)
(***************************************************************************)
\* The places of the failed calls in a trace.
FailedAt(t) == {i \in 1..Len(t) : t[i] \in {"step!", "write!", "flush!", "read!"}}

\* The failure a result names.
FailureOf(res) ==
    CASE res = "engine" -> "step!"
      [] res = "sink_write" -> "write!"
      [] res = "sink_flush" -> "flush!"
      [] res = "source_read" -> "read!"
      [] OTHER -> "none"

\* A trace and a result agree: no call failed and the result names no
\* failure, or one call failed, it is the last of the trace, and the
\* result names it.
Aborted(t, res) ==
    IF FailedAt(t) = {} THEN FailureOf(res) = "none"
    ELSE FailedAt(t) = {Len(t)} /\ t[Len(t)] = FailureOf(res)

\* C24: an engine error or an exception of the sink or of the source
\* aborts write(), flush() and copy_stream() at once.  The failed engine
\* step or sink or source call is the last thing the call does and the
\* only one that failed (it is not made again), and the call reports it;
\* the chunks written to the sink before it stay written and counted; a
\* failed write() or flush() leaves the writer not closed.
C24_Abort ==
    [][/\ (UNCHANGED dvars /\ call'.op \in {"write", "flush"}) =>
            /\ Aborted(call'.trace, call'.res)
            /\ IsPrefix(sink.data, sink'.data)
            /\ Len(sink'.data) - Len(sink.data) = tell(self') - tell(self)
            /\ Len(sink'.data) - Len(sink.data) >= Count(call'.trace, "write")
            /\ (Count(call'.trace, "write") = 0) => sink'.data = sink.data
            /\ sink'.closes = sink.closes
            /\ self'.closed = self.closed /\ ~self'.closing
       /\ (UNCHANGED wvars /\ dcall'.op = "copy_stream") =>
            /\ Aborted(dcall'.events, dcall'.res)
            /\ \A k \in 1..dcall'.steps :
                  dcall'.eng[k].err <=> (k = dcall'.steps /\ dcall'.res = "engine")
            /\ Len(dcall'.out) >= Count(dcall'.events, "write")
            /\ (Count(dcall'.events, "write") = 0) => dcall'.out = <<>>]_vars

\* A call of the writer has failed, and a copy_stream call has failed on
\* its second write to the sink, the first chunk staying written.
C24_Witness ==
    /\ ~hist.clean
    /\ dcall.op = "copy_stream" /\ dcall.res = "sink_write"
    /\ Count(dcall.events, "write") = 1
    /\ dcall.events[Len(dcall.events)] = "write!"
    /\ dcall.out # <<>>

(***************************************************************************)
(* Termination of the pump loops.                                          *)
(***************************************************************************)
\* C25: the pump loops terminate.  For every buffer size new() accepts, a
\* write(), flush() or close() that has entered its loop eventually
\* returns.
C25_Terminates == (pump.op # "idle") ~> (pump.op = "idle")

\* With a buffer of at least one byte every loop ends.
PositiveTerminates ==
    (pump.op # "idle" /\ self.write_size >= 1) ~> (pump.op = "idle")

(***************************************************************************)
(* Properties of the shared context.                                       *)
(***************************************************************************)
DecOps == Kinds \cup {"decompress", "chain", "copy_stream"}

InProgress == \E i \in 1..Len(objs) : objs[i].inframe

Kept == \A i \in 1..Len(objs) : objs'[i] = objs[i]

\* C22 as stated: while a spawned object has a frame in progress, no
\* operation on the decompressor (decompress, copy_stream, chain
\* decompression, spawning another object) resets or steps the shared
\* context.
C22_Original ==
    [][(InProgress /\ dcall'.op \in DecOps)
          => (dcall'.resets = 0 /\ dcall'.steps = 0)]_vars

\* C22, amended: one owner drives the shared context during any single
\* call, and nothing more is enforced.  A call of a spawned object makes
\* its engine step on the context as it finds it, without a reset.  Every
\* operation on the decompressor that passes the checks of its arguments
\* resets the shared context before its first engine step, whether or not
\* a spawned object has a frame in progress: it never continues that
\* frame, the frame is gone from the context, and the object is left as
\* it was, not told.
C22_SharedContext ==
    [][/\ (dcall'.op = "feed" =>
            /\ dcall'.resets = 0 /\ dcall'.steps = 1
            /\ Len(objs') = Len(objs))
       /\ dcall'.op \in DecOps =>
            /\ Len(objs') >= Len(objs) /\ Kept
            /\ (dcall'.steps > 0 => dcall'.events[1] = "reset")
            /\ ((dcall'.op \in Kinds /\ dcall'.res = "ok")
                  => /\ dcall'.resets = 1 /\ dcall'.steps = 0
                     /\ dctx'.stage = "init"
                     /\ dctx'.inbuf = <<>> /\ dctx'.pend = <<>>)
            /\ dcall'.resets <= 1]_vars

\* A spawned object has a frame in progress and the last call, made on the
\* decompressor, has reset the context under it.
C22_Witness ==
    /\ InProgress
    /\ dcall.op \in DecOps
    /\ dcall.resets = 1

(***************************************************************************)
(* Properties of copy_stream.                                              *)
(***************************************************************************)
RECURSIVE Flat(_)
Flat(chunks) == IF chunks = <<>> THEN <<>> ELSE Head(chunks) \o Flat(Tail(chunks))

\* C16: copy_stream over a source whose reads concatenate to the compressed
\* stream of content K returns (length of the stream, length of K) and has
\* written exactly K to the sink, for every read size, every write size
\* >= 1 and every chunking; no decoded byte is left in the context.
C16_CopyStream ==
    (dcall.op = "copy_stream" /\ dcall.res = "ok")
        => /\ Flat(dcall.frame) = sink.data
           /\ dcall.ret = <<Len(sink.data), Len(hist.written)>>
           /\ dcall.out = hist.written
           /\ dctx.pend = <<>>

====
